---- MODULE Spec2Model ----
(***************************************************************************)
(* Model of src/k.py: the geodesy kernel (normalize_lon, antipode,         *)
(* destination_point, circle_polygon_coords) and the session logic of the  *)
(* Streamlit page built on it.                                             *)
(*                                                                         *)
(* Angles are whole degrees.  Python's float arithmetic on them (+, -, %,  *)
(* abs, comparisons) is modelled by exact integer arithmetic.  The         *)
(* trigonometry of destination_point is modelled by the ranges of its      *)
(* outermost calls: math.asin returns a latitude in [-90, 90], math.atan2  *)
(* a longitude offset in [-180, 180]; the call is a choice in that range.  *)
(***************************************************************************)
EXTENDS Integers, Sequences, FiniteSets, TLC

\* ---------------------------------------------------------------- bounds
\* longitudes handed to normalize_lon / antipode range over -MaxAbsLon..MaxAbsLon
MaxAbsLon == 725
\* n_points handed to circle_polygon_coords ranges over 1..MaxNPoints
MaxNPoints == 3

\* ------------------------------------------------------------- constants
\* n_points of the call made by the page (line 124)
PageNPoints == 128

\* ------------------------------------------------------- sampled inputs
\* latitudes given to antipode / circle_polygon_coords (valid, poles, invalid)
LatInputs == {-100, -90, -34, 0, 34, 90, 100}
GeoLons == (-MaxAbsLon)..MaxAbsLon
\* centre longitudes given to circle_polygon_coords (its caller normalizes)
CenterLons == {-180, 179}
CenterLats == {-100, 0, 90}
\* radii in metres (slider default, and a negative one)
Radii == {-100, 50000}
\* sampled results of math.asin (degrees) and of math.atan2 (degrees)
AsinSamples == {0, 90}
Atan2Samples == {-180, -2, 0, 1, 179, 180}
\* values of the page's widgets: manual latitude / longitude, slider radius,
\* and the last_clicked the map component reports
ManualLats == {-90, 34, 100}
ManualLons == {-200, -6, 180, 540}
SliderRadii == {100, 50000, 2000000}
ClickLats == {-85, 34}
ClickLngs == {-190, -6, 180, 365}

VARIABLES
    \* --- pure-function harness
    g_lat, g_lon,      \* inputs
    g_norm,            \* <<>> or <<normalize_lon(g_lon)>>
    g_anti,            \* <<>> or antipode(g_lat, g_lon)
    g_anti2,           \* <<>> or antipode applied to g_anti
    \* --- one call of circle_polygon_coords(lat, lon, radius_m, n_points)
    pc,                \* "loop" | "done"
    lat, lon, radius_m, n_points,
    i,                 \* loop variable of line 53
    coords,            \* list of <<lon2, lat2>> (line 65)
    prev_lon,          \* <<>> models None, <<v>> a value
    outcome,           \* "running" | "returned"
    calls,             \* history: per iteration, what destination_point
                       \* was asked and returned and the normalized longitude
    \* --- the page
    center,            \* st.session_state.center
    stage,             \* position in the script run
    lastStore,         \* "default" | "manual" | "click": who stored center
    entered,           \* the values last passed to a store
    anti,              \* <<>> or <<anti_lat, anti_lon>> of the last render
    polyArgs           \* <<>> or arguments of the circle_polygon_coords call

gvars == <<g_lat, g_lon, g_norm, g_anti, g_anti2>>
cvars == <<pc, lat, lon, radius_m, n_points, i, coords, prev_lon, outcome, calls>>
avars == <<center, stage, lastStore, entered, anti, polyArgs>>
vars == <<g_lat, g_lon, g_norm, g_anti, g_anti2,
          pc, lat, lon, radius_m, n_points, i, coords, prev_lon, outcome, calls,
          center, stage, lastStore, entered, anti, polyArgs>>

Abs(x) == IF x < 0 THEN -x ELSE x

\* ------------------------------------------------------------- geodesy
\* a remainder that truncates toward zero (C-style)
TruncMod(a, b) == IF a >= 0 THEN a % b ELSE -((-a) % b)

\* Python's % for a positive divisor: the result is in 0..b-1
PyMod(a, b) == a % b

normalize_lon_NoShift(l) == PyMod(l + 180, 360)

normalize_lon(l) == PyMod(l + 180, 360) - 180

antipode_NoNormalize(la, lo) == <<-la, lo + 180>>

antipode_NoFlip(la, lo) == <<la, normalize_lon(lo + 180)>>

antipode(la, lo) == <<-la, normalize_lon(lo + 180)>>

\* the set of results destination_point can return: <<lat2, lon2>> with
\* lat2 a value of asin and lon2 = lon + a value of atan2 (line 31); the
\* returned longitude is not normalized
destination_point(lat_deg, lon_deg, bearing_deg, distance_m) ==
    { <<lat2, lon_deg + off>> : lat2 \in AsinSamples, off \in Atan2Samples }

\* ------------------------------------------------ idle values of a part
GeoIdle ==
    /\ g_lat = 0 /\ g_lon = 0
    /\ g_norm = <<>> /\ g_anti = <<>> /\ g_anti2 = <<>>

CircleIdle ==
    /\ pc = "done" /\ lat = 0 /\ lon = 0 /\ radius_m = 0 /\ n_points = 1
    /\ i = 0 /\ coords = <<>> /\ prev_lon = <<>>
    /\ outcome = "running" /\ calls = <<>>

PageIdle ==
    /\ center = <<20, 0>> /\ stage = "manual" /\ lastStore = "default"
    /\ entered = <<20, 0>> /\ anti = <<>> /\ polyArgs = <<>>

\* --------------------------------------- the pure functions, called once
GeoInit ==
    /\ g_lat \in LatInputs
    /\ g_lon \in GeoLons
    /\ g_norm = <<>> /\ g_anti = <<>> /\ g_anti2 = <<>>
    /\ CircleIdle /\ PageIdle

\* normalize_lon(g_lon)
CallNormalizeLon ==
    /\ g_norm = <<>>
    /\ g_norm' = <<normalize_lon(g_lon)>>
    /\ UNCHANGED <<g_lat, g_lon, g_anti, g_anti2>>
    /\ UNCHANGED cvars /\ UNCHANGED avars

\* antipode(g_lat, g_lon)
CallAntipode ==
    /\ g_anti = <<>>
    /\ g_anti' = antipode(g_lat, g_lon)
    /\ UNCHANGED <<g_lat, g_lon, g_norm, g_anti2>>
    /\ UNCHANGED cvars /\ UNCHANGED avars

\* antipode(*antipode(g_lat, g_lon))
CallAntipodeAgain ==
    /\ g_anti # <<>>
    /\ g_anti2 = <<>>
    /\ g_anti2' = antipode(g_anti[1], g_anti[2])
    /\ UNCHANGED <<g_lat, g_lon, g_norm, g_anti>>
    /\ UNCHANGED cvars /\ UNCHANGED avars

GeoNext == CallNormalizeLon \/ CallAntipode \/ CallAntipodeAgain

SpecGeo == GeoInit /\ [][GeoNext]_vars

\* ------------------------------------------------------------ C1 .. C3
InRange(l) == -180 <= l /\ l < 180

\* C1: normalize_lon(lon) lies in [-180, 180) and is congruent to lon
\* modulo 360, for every lon; normalize_lon(180) = -180; a negative input
\* is reduced with a non-negative remainder ((lon + 180) mod 360 >= 0).
C1_NormalizeLon ==
    g_norm # <<>> =>
        /\ InRange(g_norm[1])
        /\ (g_norm[1] - g_lon) % 360 = 0
        /\ g_norm[1] + 180 >= 0
        /\ (g_lon = 180 => g_norm[1] = -180)
        /\ (g_lon = -190 => g_norm[1] = 170)
        /\ (g_lon = -540 => g_norm[1] = -180)

C1_Witness == g_norm # <<>> /\ g_lon = -190 /\ g_norm[1] = 170

\* C2 as claimed: antipode(antipode(lat, lon)) = (lat, lon) for every
\* latitude in [-90, 90] and every longitude in [-180, 180].
C2_Original ==
    (g_anti2 # <<>> /\ g_lat \in -90..90 /\ g_lon \in -180..180)
        => g_anti2 = <<g_lat, g_lon>>

\* C2 amended: antipode(antipode(lat, lon)) = (lat, normalize_lon(lon)),
\* which is (lat, lon) exactly when lon is in [-180, 180).
C2_Involution ==
    g_anti2 # <<>> =>
        /\ g_anti2[1] = g_lat
        /\ InRange(g_anti2[2]) /\ (g_anti2[2] - g_lon) % 360 = 0
        /\ (InRange(g_lon) => g_anti2 = <<g_lat, g_lon>>)
        /\ (~InRange(g_lon) => g_anti2 # <<g_lat, g_lon>>)

C2_Witness == g_anti2 # <<>> /\ g_lat = 34 /\ g_lon = -6 /\ g_anti2 = <<34, -6>>

\* C3: antipode(lat, lon) has latitude -lat and a longitude in [-180, 180)
\* that differs from lon by 180 modulo 360; antipode(34, -6) = (-34, 174).
C3_Antipode ==
    g_anti # <<>> =>
        /\ g_anti[1] = -g_lat
        /\ InRange(g_anti[2])
        /\ (g_anti[2] - g_lon - 180) % 360 = 0
        /\ ((g_lat = 34 /\ g_lon = -6) => g_anti = <<-34, 174>>)

C3_Witness == g_lat = 34 /\ g_lon = -6 /\ g_anti = <<-34, 174>>

\* ------------------------------------------------ circle_polygon_coords
\* the seam correction of the loop applied with no correction at all
unwrap_None(p, l) == l

\* the seam correction with the two branches exchanged
unwrap_Swapped(p, l) ==
    IF p # <<>> /\ Abs(l - p[1]) > 180
      THEN (IF l > p[1] THEN l + 360 ELSE l - 360)
      ELSE l

\* lines 59-63: p is prev_lon (<<>> for None), l the normalized longitude
unwrap(p, l) ==
    IF p # <<>> /\ Abs(l - p[1]) > 180
      THEN (IF l > p[1] THEN l - 360 ELSE l + 360)
      ELSE l

LoopCount_Short(n) == n

\* line 53: the number of iterations of range(n_points + 1)
LoopCount(n) == n + 1

\* line 51: step = 360.0 / n_points (exact for the n_points of the model,
\* which divide 360)
step == 360 \div n_points

CircleInit ==
    /\ lat \in CenterLats
    /\ lon \in CenterLons
    /\ radius_m \in Radii
    /\ n_points \in 1..MaxNPoints
    /\ pc = "loop" /\ i = 0 /\ coords = <<>> /\ prev_lon = <<>>
    /\ outcome = "running" /\ calls = <<>>
    /\ GeoIdle /\ PageIdle

\* lines 53-66: one iteration of the first loop
LoopIter ==
    /\ pc = "loop"
    /\ i < LoopCount(n_points)
    /\ LET br == i * step IN
       \E d \in destination_point(lat, lon, br, radius_m) :
          LET lat2 == d[1]
              norm == normalize_lon(d[2])
              lon2 == unwrap(prev_lon, norm)
          IN  /\ coords' = Append(coords, <<lon2, lat2>>)
              /\ prev_lon' = <<lon2>>
              /\ calls' = Append(calls, [br |-> br, ret |-> d, norm |-> norm])
    /\ i' = i + 1
    /\ UNCHANGED <<pc, lat, lon, radius_m, n_points, outcome>>
    /\ UNCHANGED gvars /\ UNCHANGED avars

\* line 67: return coords (lines 69-73 follow the return and never run)
Return ==
    /\ pc = "loop"
    /\ i >= LoopCount(n_points)
    /\ pc' = "done"
    /\ outcome' = "returned"
    /\ UNCHANGED <<lat, lon, radius_m, n_points, i, coords, prev_lon, calls>>
    /\ UNCHANGED gvars /\ UNCHANGED avars

CircleNext == LoopIter \/ Return

SpecCircle == CircleInit /\ [][CircleNext]_vars

Last(q) == q[Len(q)]

\* C4: the returned ring has exactly n_points + 1 entries, entry number k
\* (k = 0..n_points) being the [longitude, latitude] computed from
\* destination_point at bearing k * (360 / n_points); nothing is appended
\* after the first return, so the ring never grows beyond n_points + 1.
C4_RingShape ==
    /\ Len(coords) <= n_points + 1
    /\ pc = "done" =>
        /\ outcome = "returned"
        /\ Len(coords) = n_points + 1
        /\ Len(calls) = n_points + 1
        /\ \A k \in 1..Len(coords) :
              /\ calls[k].br = (k - 1) * step
              /\ coords[k][2] = calls[k].ret[1]
              /\ (coords[k][1] - calls[k].ret[2]) % 360 = 0

C4_Witness == pc = "done" /\ n_points = 3 /\ Len(coords) = 4 /\ calls[4].br = 360

\* C5 as claimed: for n_points >= 3, when destination_point gives the same
\* normalized point at bearing 360 as at bearing 0, the last entry of the
\* returned ring is identical to the first.
C5_RingClosed ==
    (/\ pc = "done" /\ n_points >= 3
     /\ Last(calls).norm = calls[1].norm
     /\ Last(calls).ret[1] = calls[1].ret[1])
        => Last(coords) = coords[1]

C7_Rejected ==
    (radius_m < 0 \/ lat \notin -90..90) =>
        /\ calls = <<>>
        /\ coords = <<>>
        /\ outcome # "returned"

\* C8 as claimed: for an origin longitude in [-180, 180), the longitude
\* returned by destination_point lies in [-180, 180).
C8_Original ==
    InRange(lon) => \A k \in 1..Len(calls) : InRange(calls[k].ret[2])

\* C8 amended: for an origin longitude in [-180, 180), the longitude
\* returned by destination_point lies in [-360, 360) and need not be
\* normalized; circle_polygon_coords normalizes it into [-180, 180) before
\* it uses it.
C8_Normalized ==
    InRange(lon) =>
        \A k \in 1..Len(calls) :
            /\ calls[k].ret[2] >= -360 /\ calls[k].ret[2] < 360
            /\ InRange(calls[k].norm)
            /\ (calls[k].norm - calls[k].ret[2]) % 360 = 0

C8_Witness ==
    /\ lon = 179 /\ Len(calls) >= 1
    /\ Last(calls).ret[2] = 180 /\ Last(calls).norm = -180

\* C9: the first entry keeps its normalized longitude; a later entry with
\* normalized longitude n and previous stored longitude p stores n - 360
\* when n - p > 180, n + 360 when p - n > 180 and n otherwise; so a stored
\* longitude differs from its normalized value by 0, +360 or -360 and lies
\* in [-540, 540); latitudes are stored as returned.
C9_Unwrap ==
    \A k \in 1..Len(coords) :
        LET n == calls[k].norm
            s == coords[k][1]
        IN  /\ k = 1 => (s = n /\ InRange(s))
            /\ k > 1 =>
                 LET p == coords[k - 1][1] IN
                 s = IF n - p > 180 THEN n - 360
                     ELSE IF p - n > 180 THEN n + 360 ELSE n
            /\ s - n \in {-360, 0, 360}
            /\ s >= -540 /\ s < 540
            /\ coords[k][2] = calls[k].ret[1]

C9_Witness ==
    /\ pc = "done" /\ n_points = 3
    /\ coords[1][1] = calls[1].norm
    /\ coords[2][1] = calls[2].norm + 360
    /\ coords[3][1] = calls[3].norm
    /\ coords[4][1] = calls[4].norm + 360

\* ------------------------------------------------------------- the page
ClickCenter_Raw(la, lng) == <<la, lng>>

\* lines 105-109: the centre stored for a click at (la, lng)
ClickCenter(la, lng) == <<la, normalize_lon(lng)>>

PageInit ==
    /\ center = <<20, 0>>
    /\ stage = "manual" /\ lastStore = "default" /\ entered = <<20, 0>>
    /\ anti = <<>> /\ polyArgs = <<>>
    /\ GeoIdle /\ CircleIdle

\* lines 87-91: the button is pressed with the values of the two inputs
ManualSet ==
    /\ stage = "manual"
    /\ \E manual_lat \in ManualLats, manual_lon \in ManualLons :
          /\ center' = <<manual_lat, manual_lon>>
          /\ entered' = <<manual_lat, manual_lon>>
    /\ lastStore' = "manual"
    /\ stage' = "map"
    /\ UNCHANGED <<anti, polyArgs>>
    /\ UNCHANGED gvars /\ UNCHANGED cvars

\* line 89: the button is not pressed in this run
ManualSkip ==
    /\ stage = "manual"
    /\ stage' = "map"
    /\ UNCHANGED <<center, lastStore, entered, anti, polyArgs>>
    /\ UNCHANGED gvars /\ UNCHANGED cvars

\* lines 104-110: the map reports a last_clicked
MapClick ==
    /\ stage = "map"
    /\ \E lat_click \in ClickLats, lon_click \in ClickLngs :
          /\ center' = ClickCenter(lat_click, lon_click)
          /\ entered' = <<lat_click, lon_click>>
    /\ lastStore' = "click"
    /\ stage' = "render"
    /\ UNCHANGED <<anti, polyArgs>>
    /\ UNCHANGED gvars /\ UNCHANGED cvars

\* line 104: no last_clicked
MapNoClick ==
    /\ stage = "map"
    /\ stage' = "render"
    /\ UNCHANGED <<center, lastStore, entered, anti, polyArgs>>
    /\ UNCHANGED gvars /\ UNCHANGED cvars

\* lines 115-124 and 151: the antipode of the session centre is computed
\* and given to circle_polygon_coords and to the view state
Render ==
    /\ stage = "render"
    /\ LET a == antipode(center[1], center[2]) IN
       /\ anti' = a
       /\ \E radius \in SliderRadii :
             polyArgs' = <<a[1], a[2], radius, PageNPoints>>
    /\ stage' = "manual"
    /\ UNCHANGED <<center, lastStore, entered>>
    /\ UNCHANGED gvars /\ UNCHANGED cvars

PageNext == ManualSet \/ ManualSkip \/ MapClick \/ MapNoClick \/ Render

SpecPage == PageInit /\ [][PageNext]_vars

\* C10: after any sequence of clicks and manual entries, the antipodal
\* centre given to circle_polygon_coords and to the globe view has its
\* longitude in [-180, 180) and its latitude equal to minus the session
\* centre's latitude; a centre stored by a click has its longitude in
\* [-180, 180); a centre stored manually is exactly what was entered.
C10_Page ==
    /\ (stage = "manual" /\ anti # <<>>) =>
          /\ InRange(anti[2])
          /\ anti[1] = -center[1]
          /\ (anti[2] - center[2] - 180) % 360 = 0
          /\ polyArgs[1] = anti[1] /\ polyArgs[2] = anti[2]
    /\ lastStore = "click" =>
          /\ InRange(center[2])
          /\ center[1] = entered[1]
          /\ (center[2] - entered[2]) % 360 = 0
    /\ lastStore = "manual" => center = entered

C10_Witness ==
    /\ stage = "manual" /\ lastStore = "manual"
    /\ center = <<100, 540>> /\ anti = <<-100, 0>>

====
